---- MODULE Spec2Model ----
(***************************************************************************)
(* MQTT service (src/mqtt_service.py): condition evaluation and dispatch.  *)
(*                                                                         *)
(* Python values are records [t, n, s, e]:                                 *)
(*   t  the Python type: "num" (int/float), "bool", "str", "null" (None),  *)
(*      "list", "dict"                                                     *)
(*   n  the number in tenths (32.5 is 325) for "num", 1/0 for "bool"       *)
(*   s  the text of a "str"                                                *)
(*   e  the items of a "list" / "dict", in order, as records [k, val]      *)
(*      (k is the key of a dict item and "" for a list item)               *)
(***************************************************************************)
EXTENDS Integers, Sequences, FiniteSets, TLC

\* --------------------------------------------------------------------------
\* Bounds
\* --------------------------------------------------------------------------
\* number of inbound messages a behaviour of the service delivers
MaxMsgs == 2

\* number of messages published while the service is disconnected
MaxMissed == 1

\* --------------------------------------------------------------------------
\* State
\* --------------------------------------------------------------------------
VARIABLES
    cfgFile,    \* the configuration file: exists, readable, text
    defaults,   \* the module's DEFAULT_CONFIG dict
    config,     \* self.config, a Python dict (None before construction)
    mainpc,     \* main(): "init" (signal handlers registered), "pid_written",
                \* "constructed", "running" (inside loop_forever), "exited"
    pidFile,    \* whether the PID file exists
    exitStatus, \* exit status of the process (-1: still running)
    uncaught,   \* the exception that ended main() ("none": none)
    conn,       \* the broker session: "none", "connecting", "connected",
                \* "disconnected", "closed"
    subs,       \* the topic filters subscribed in the session
    missed,     \* number of messages published while disconnected
    pingDue,    \* a keepalive PINGREQ is due
    environ,    \* os.environ of the service
    childEnv,   \* the environment of the handler process started for msg
    pc,         \* "loop": loop_forever waits for the broker; "waiting":
                \* on_message is blocked in subprocess.run; "exited"
    msg,        \* the inbound message on_message was last called with
    nmsg,       \* number of messages delivered so far
    decision,   \* what should_execute_script gave for msg ("none": not called)
    starts,     \* number of handler processes started for msg
    child,      \* the handler process: "none", "running", "exited", "killed"
    elapsed,    \* seconds the pending subprocess.run has waited (0: none pending)
    outcome,    \* what execute_script logged for msg ("none": nothing)
    raised,     \* the exception that escaped on_message ("none": none)
    prev        \* topic, payload, starts and outcome of the message before msg

mainVars == <<cfgFile, defaults, mainpc, pidFile, exitStatus, uncaught>>

connVars == <<conn, subs, missed, pingDue>>

vars == <<cfgFile, defaults, config, mainpc, pidFile, exitStatus, uncaught,
          conn, subs, missed, pingDue, environ, childEnv, pc, msg, nmsg,
          decision, starts, child, elapsed, outcome, raised, prev>>

\* --------------------------------------------------------------------------
\* Python values
\* --------------------------------------------------------------------------
Num(x) == [t |-> "num", n |-> x, s |-> "", e |-> <<>>]

\* a whole number: Whole(30) is the Python value 30, stored in tenths
Whole(x) == Num(10 * x)

Bool(b) == [t |-> "bool", n |-> IF b THEN 1 ELSE 0, s |-> "", e |-> <<>>]

Str(x) == [t |-> "str", n |-> 0, s |-> x, e |-> <<>>]

None == [t |-> "null", n |-> 0, s |-> "", e |-> <<>>]

List(items) == [t |-> "list", n |-> 0, s |-> "", e |-> items]

Dict(items) == [t |-> "dict", n |-> 0, s |-> "", e |-> items]

Item(key, value) == [k |-> key, val |-> value]

Elem(value) == [k |-> "", val |-> value]

EmptyDict == Dict(<<>>)

\* isinstance(v, (int, float)): bool is a subclass of int
IsNumber(v) == v.t \in {"num", "bool"}

\* the numeric value of an int/float/bool, in tenths (True is 1, False is 0)
NumVal(v) == IF v.t = "bool" THEN 10 * v.n ELSE v.n

\* bool(v): the truth value Python gives `not v`
Truthy(v) ==
    CASE v.t = "num" -> v.n # 0
      [] v.t = "bool" -> v.n = 1
      [] v.t = "str" -> v.s # ""
      [] v.t = "null" -> FALSE
      [] OTHER -> Len(v.e) > 0

\* key in d, for a dict d
HasKey(d, key) == \E i \in 1..Len(d.e) : d.e[i].k = key

\* d[key], for a dict d that has the key
DictGet(d, key) == d.e[CHOOSE i \in 1..Len(d.e) : d.e[i].k = key].val

\* d.get(key, default)
DictGetOr(d, key, default) == IF HasKey(d, key) THEN DictGet(d, key) ELSE default

\* d[key] = value: an existing key keeps its position, a new key is appended
DictSet(items, key, value) ==
    IF \E i \in 1..Len(items) : items[i].k = key
    THEN [i \in 1..Len(items) |->
             IF items[i].k = key THEN Item(key, value) ELSE items[i]]
    ELSE Append(items, Item(key, value))

\* a == b in Python: numbers and booleans compare by value (True == 1),
\* values of other types are equal only to values of the same type
RECURSIVE PyEq(_, _)
PyEq(a, b) ==
    CASE IsNumber(a) /\ IsNumber(b) -> NumVal(a) = NumVal(b)
      [] a.t = "str" /\ b.t = "str" -> a.s = b.s
      [] a.t = "null" /\ b.t = "null" -> TRUE
      [] a.t = "list" /\ b.t = "list" ->
            /\ Len(a.e) = Len(b.e)
            /\ \A i \in 1..Len(a.e) : PyEq(a.e[i].val, b.e[i].val)
      [] a.t = "dict" /\ b.t = "dict" ->
            /\ Len(a.e) = Len(b.e)
            /\ \A i \in 1..Len(a.e) :
                  /\ HasKey(b, a.e[i].k)
                  /\ PyEq(a.e[i].val, DictGet(b, a.e[i].k))
      [] OTHER -> FALSE

\* sub in text, for two strings
IsSubstring(sub, text) ==
    \E i \in 1..(Len(text) - Len(sub) + 1) :
        SubSeq(text, i, i + Len(sub) - 1) = sub

\* --------------------------------------------------------------------------
\* json.loads, for the JSON texts without escapes, exponents and with at
\* most one fractional digit; the only whitespace is the blank
\* --------------------------------------------------------------------------
\* the character at position i, "" past the end
Ch(text, i) == IF i >= 1 /\ i <= Len(text) THEN SubSeq(text, i, i) ELSE ""

\* text[i..j], "" when it runs past the end
Slice(text, i, j) == IF j <= Len(text) THEN SubSeq(text, i, j) ELSE ""

Digits == {"0", "1", "2", "3", "4", "5", "6", "7", "8", "9"}

DigitVal(c) ==
    CASE c = "0" -> 0 [] c = "1" -> 1 [] c = "2" -> 2 [] c = "3" -> 3
      [] c = "4" -> 4 [] c = "5" -> 5 [] c = "6" -> 6 [] c = "7" -> 7
      [] c = "8" -> 8 [] OTHER -> 9

\* a parse result: the value and the position after it, or a failure
Parsed(value, next) == [ok |-> TRUE, val |-> value, pos |-> next]

ParseFail == [ok |-> FALSE, val |-> None, pos |-> 0]

RECURSIVE SkipWs(_, _)
SkipWs(text, i) == IF Ch(text, i) = " " THEN SkipWs(text, i + 1) ELSE i

\* the position after the run of digits that starts at i
RECURSIVE DigitsEnd(_, _)
DigitsEnd(text, i) ==
    IF Ch(text, i) \in Digits THEN DigitsEnd(text, i + 1) ELSE i

\* the value of the digits text[i..j-1]
RECURSIVE DigitsVal(_, _, _)
DigitsVal(text, i, j) ==
    IF i >= j THEN 0
    ELSE 10 * DigitsVal(text, i, j - 1) + DigitVal(Ch(text, j - 1))

\* a string literal whose opening quote is at i
ParseString(text, i) ==
    LET closers == {j \in (i + 1)..Len(text) : Ch(text, j) = "\""}
        close == CHOOSE j \in closers : \A m \in closers : j <= m
    IN  IF closers = {} THEN ParseFail
        ELSE IF \E m \in (i + 1)..(close - 1) : Ch(text, m) = "\\"
        THEN ParseFail
        ELSE Parsed(Str(SubSeq(text, i + 1, close - 1)), close + 1)

\* a number literal at i: -? (0 | [1-9][0-9]*) (. [0-9])?
ParseNumber(text, i) ==
    LET neg == Ch(text, i) = "-"
        first == IF neg THEN i + 1 ELSE i
        intEnd == IF Ch(text, first) = "0" THEN first + 1
                  ELSE DigitsEnd(text, first)
        whole == DigitsVal(text, first, intEnd)
        hasFrac == Ch(text, intEnd) = "."
        fracEnd == DigitsEnd(text, intEnd + 1)
        tenths == 10 * whole +
                  (IF hasFrac THEN DigitVal(Ch(text, intEnd + 1)) ELSE 0)
    IN  IF intEnd = first THEN ParseFail
        ELSE IF hasFrac /\ fracEnd # intEnd + 2 THEN ParseFail
        ELSE Parsed(Num(IF neg THEN 0 - tenths ELSE tenths),
                    IF hasFrac THEN fracEnd ELSE intEnd)

RECURSIVE ParseValue(_, _)
RECURSIVE ParseMembers(_, _, _)
RECURSIVE ParseElements(_, _, _)

\* the members of an object after "{" or ",": "key" : value
ParseMembers(text, i, acc) ==
    IF Ch(text, i) # "\"" THEN ParseFail
    ELSE
    LET key == ParseString(text, i)
        colon == SkipWs(text, key.pos)
        value == ParseValue(text, SkipWs(text, colon + 1))
        after == SkipWs(text, value.pos)
        items == DictSet(acc, key.val.s, value.val)
    IN  IF ~key.ok \/ Ch(text, colon) # ":" THEN ParseFail
        ELSE IF ~value.ok THEN ParseFail
        ELSE IF Ch(text, after) = ","
             THEN ParseMembers(text, SkipWs(text, after + 1), items)
        ELSE IF Ch(text, after) = "}" THEN Parsed(Dict(items), after + 1)
        ELSE ParseFail

\* the elements of an array after "[" or ","
ParseElements(text, i, acc) ==
    LET value == ParseValue(text, i)
        after == SkipWs(text, value.pos)
        items == Append(acc, Elem(value.val))
    IN  IF ~value.ok THEN ParseFail
        ELSE IF Ch(text, after) = ","
             THEN ParseElements(text, SkipWs(text, after + 1), items)
        ELSE IF Ch(text, after) = "]" THEN Parsed(List(items), after + 1)
        ELSE ParseFail

\* the JSON value that starts at i
ParseValue(text, i) ==
    LET c == Ch(text, i)
        inner == SkipWs(text, i + 1)
    IN  CASE c = "{" ->
                IF Ch(text, inner) = "}" THEN Parsed(EmptyDict, inner + 1)
                ELSE ParseMembers(text, inner, <<>>)
          [] c = "[" ->
                IF Ch(text, inner) = "]" THEN Parsed(List(<<>>), inner + 1)
                ELSE ParseElements(text, inner, <<>>)
          [] c = "\"" -> ParseString(text, i)
          [] c = "-" \/ c \in Digits -> ParseNumber(text, i)
          [] c = "t" /\ Slice(text, i, i + 3) = "true" ->
                Parsed(Bool(TRUE), i + 4)
          [] c = "f" /\ Slice(text, i, i + 4) = "false" ->
                Parsed(Bool(FALSE), i + 5)
          [] c = "n" /\ Slice(text, i, i + 3) = "null" ->
                Parsed(None, i + 4)
          [] OTHER -> ParseFail

\* json.loads(text): ok is FALSE where Python raises json.JSONDecodeError
json_loads(text) ==
    LET r == ParseValue(text, SkipWs(text, 1))
    IN  IF r.ok /\ SkipWs(text, r.pos) = Len(text) + 1
        THEN [ok |-> TRUE, val |-> r.val]
        ELSE [ok |-> FALSE, val |-> None]

\* --------------------------------------------------------------------------
\* MQTTService.should_execute_script
\* --------------------------------------------------------------------------
RelationalOps == {">", "<", ">=", "<="}

\* `actual_value op threshold` for a numeric actual_value: Python orders
\* numbers (and booleans) only against numbers, anything else is a TypeError
Relational(op, actual_value, threshold) ==
    LET a == NumVal(actual_value)
        b == NumVal(threshold)
        holds == CASE op = ">" -> a > b
                   [] op = "<" -> a < b
                   [] op = ">=" -> a >= b
                   [] OTHER -> a <= b
    IN  IF ~IsNumber(threshold) THEN "TypeError"
        ELSE IF holds THEN "pass" ELSE "False"

\* one operator term, lines 151-171: "pass" lets the loop go on
OperatorTerm(expected_value, actual_value) ==
    LET operator == DictGet(expected_value, "operator")
        threshold == DictGetOr(expected_value, "threshold",
                         DictGetOr(expected_value, "value", None))
    IN  IF operator.t = "str" /\ operator.s \in RelationalOps
        THEN IF ~IsNumber(actual_value) THEN "False"
             ELSE Relational(operator.s, actual_value, threshold)
        ELSE IF PyEq(operator, Str("=="))
        THEN IF ~PyEq(actual_value, threshold) THEN "False" ELSE "pass"
        ELSE IF PyEq(operator, Str("!="))
        THEN IF PyEq(actual_value, threshold) THEN "False" ELSE "pass"
        ELSE "pass"

\* one term of the loop body, lines 150-175
CheckTerm(expected_value, actual_value) ==
    IF expected_value.t = "dict" /\ HasKey(expected_value, "operator")
    THEN OperatorTerm(expected_value, actual_value)
    ELSE IF ~PyEq(actual_value, expected_value) THEN "False" ELSE "pass"

\* `key in data`, line 144: membership for a dict, substring for a str,
\* element for a list, TypeError for a number, a boolean and None
KeyIn(key, data) ==
    CASE data.t = "dict" -> IF HasKey(data, key) THEN "yes" ELSE "no"
      [] data.t = "str" -> IF IsSubstring(key, data.s) THEN "yes" ELSE "no"
      [] data.t = "list" ->
            IF \E i \in 1..Len(data.e) : PyEq(data.e[i].val, Str(key))
            THEN "yes" ELSE "no"
      [] OTHER -> "TypeError"

\* the loop of lines 143-177 from the i-th term on
RECURSIVE CheckConditions(_, _, _)
CheckConditions(items, i, data) ==
    IF i > Len(items) THEN "True"
    ELSE
    LET key == items[i].k
        expected_value == items[i].val
        found == KeyIn(key, data)
        term == CheckTerm(expected_value, DictGet(data, key))
    IN  IF found = "TypeError" THEN "TypeError"
        ELSE IF found = "no" THEN "False"
        ELSE IF data.t # "dict" THEN "TypeError"
        ELSE IF term = "pass" THEN CheckConditions(items, i + 1, data)
        ELSE term

\* should_execute_script reading topic_config['conditions'] without a
\* default: a rule without conditions raises KeyError
should_execute_script_no_default(topic_config, payload) ==
    LET conditions == DictGetOr(topic_config, "conditions", EmptyDict)
        parsed == json_loads(payload)
        data == IF parsed.ok THEN parsed.val ELSE Str(payload)
    IN  IF ~HasKey(topic_config, "conditions") THEN "KeyError"
        ELSE IF ~Truthy(conditions) THEN "True"
        ELSE IF conditions.t # "dict" THEN "AttributeError"
        ELSE CheckConditions(conditions.e, 1, data)

\* should_execute_script(topic_config, payload): "True", "False", or the
\* name of the exception that escapes
should_execute_script(topic_config, payload) ==
    LET conditions == DictGetOr(topic_config, "conditions", EmptyDict)
        parsed == json_loads(payload)
        data == IF parsed.ok THEN parsed.val ELSE Str(payload)
    IN  IF ~Truthy(conditions) THEN "True"
        ELSE IF conditions.t # "dict" THEN "AttributeError"
        ELSE CheckConditions(conditions.e, 1, data)

\* --------------------------------------------------------------------------
\* Configurations
\* --------------------------------------------------------------------------
\* subprocess.run(..., timeout=30)
Timeout == 30

Op(operator, threshold) ==
    Dict(<<Item("operator", Str(operator)), Item("threshold", threshold)>>)

\* a topic rule with a script and a condition set
Rule(script, conditions) ==
    Dict(<<Item("script", Str(script)), Item("conditions", conditions)>>)

DEFAULT_CONFIG ==
    Dict(<<
      Item("mqtt", Dict(<<
          Item("broker", Str("localhost")),
          Item("port", Whole(1883)),
          Item("username", None),
          Item("password", None),
          Item("client_id", Str("mqtt-service")),
          Item("keepalive", Whole(60))>>)),
      Item("topics", Dict(<<
          Item("sensor/temperature",
               Rule("/usr/local/bin/handle_temperature.py",
                    Dict(<<Item("threshold", Num(250)),
                           Item("operator", Str(">"))>>))),
          Item("device/status",
               Rule("/usr/local/bin/handle_device_status.py",
                    Dict(<<Item("status", Str("offline"))>>)))>>)),
      Item("logging", Dict(<<
          Item("level", Str("INFO")),
          Item("format", Str("%(asctime)s - %(name)s - %(levelname)s - %(message)s"))>>))
    >>)

RECURSIVE merge_configs(_, _)
RECURSIVE MergeLoop(_, _, _)

\* the loop of lines 81-85 from the i-th item of user on; result holds the
\* items of the dict `result`
MergeLoop(result, items, i) ==
    IF i > Len(items) THEN result
    ELSE
    LET key == items[i].k
        value == items[i].val
        both == /\ HasKey(Dict(result), key)
                /\ DictGet(Dict(result), key).t = "dict"
                /\ value.t = "dict"
        merged == IF both
                  THEN merge_configs(DictGet(Dict(result), key), value).result
                  ELSE value
    IN  MergeLoop(DictSet(result, key, merged), items, i + 1)

\* merge_configs as result.update(user): a user mapping replaces the default
\* mapping instead of being merged into it
merge_configs_update(default, user) ==
    LET updated[i \in 0..Len(user.e)] ==
            IF i = 0 THEN default.e
            ELSE DictSet(updated[i - 1], user.e[i].k, user.e[i].val)
    IN  [result |-> Dict(updated[Len(user.e)]),
         default |-> default]

\* merge_configs(default, user) for two dicts: the dict it returns, and the
\* dict `default` as the call leaves it. result is default.copy(), a new
\* dict, so the assignments result[key] = ... do not reach default; the
\* values result shares with default are never assigned into
merge_configs(default, user) ==
    [result |-> Dict(MergeLoop(default.e, user.e, 1)),
     default |-> default]

\* a configuration file: whether it exists, can be opened, and its text
File(text) == [exists |-> TRUE, readable |-> TRUE, text |-> text]

MissingFile == [exists |-> FALSE, readable |-> FALSE, text |-> ""]

UnreadableFile == [exists |-> TRUE, readable |-> FALSE, text |-> ""]

\* load_config() as __init__ calls it, with the module's DEFAULT_CONFIG being
\* default: the exception that escapes ("none": none), the configuration it
\* returns, and DEFAULT_CONFIG afterwards. self.logger is assigned only
\* after load_config returns (line 61), so the logging calls of lines 72 and
\* 75 raise AttributeError, and the one of line 75 is inside the except
\* clause: it escapes
load_config(file, default) ==
    LET parsed == json_loads(file.text)
        merged == merge_configs(default, parsed.val)
        failed == [raised |-> "AttributeError", config |-> None,
                   default |-> default]
    IN  IF ~file.exists THEN failed
        ELSE IF ~file.readable THEN failed
        ELSE IF ~parsed.ok THEN failed
        ELSE IF parsed.val.t # "dict" THEN failed
        ELSE [raised |-> "none", config |-> merged.result,
              default |-> merged.default]

\* self.config with the given rules merged into the default topics
WithTopics(topics) ==
    merge_configs(DEFAULT_CONFIG, Dict(<<Item("topics", Dict(topics))>>)).result

\* a configuration file with three rules: a threshold rule on the default
\* topic sensor/temperature, two rules without conditions (one on a wildcard
\* topic)
UserFile ==
    File("{\"topics\": {\"sensor/temperature\": {\"conditions\": {\"temperature\": {\"operator\": \">\", \"threshold\": 30}}}, \"sensor/raw\": {\"script\": \"/usr/local/bin/handle_raw.py\"}, \"alerts/#\": {\"script\": \"/usr/local/bin/handle_alert.py\"}}}")

\* a configuration file that changes nothing
EmptyFile == File("{}")

\* the configuration files the service runs with
ServiceFiles == {EmptyFile, UserFile}

\* self.config after construction
ServiceConfigs == {load_config(f, DEFAULT_CONFIG).config : f \in ServiceFiles}

\* topics the broker has messages published on
Topics == {"sensor/temperature", "device/status", "sensor/raw", "alerts/fire"}

\* payload texts of the published messages
Payloads ==
    { "{\"temperature\": 32.5}",
      "{\"status\":\"offline\",\"device_id\":\"d1\"}",
      "not-json",
      "status: offline" }

NoMsg == [topic |-> "", payload |-> ""]

NoPrev == [topic |-> "", payload |-> "", starts |-> 0, outcome |-> "none"]

\* --------------------------------------------------------------------------
\* The broker's topic filters
\* --------------------------------------------------------------------------
\* the levels of a topic name or filter: the parts between the "/"
RECURSIVE Levels(_)
Levels(text) ==
    LET slashes == {i \in 1..Len(text) : Ch(text, i) = "/"}
        first == CHOOSE i \in slashes : \A j \in slashes : i <= j
    IN  IF slashes = {} THEN <<text>>
        ELSE <<SubSeq(text, 1, first - 1)>>
                 \o Levels(SubSeq(text, first + 1, Len(text)))

\* filter levels f against topic levels t from level i on: "+" matches one
\* level, "#" the rest (and the parent)
RECURSIVE LevelsMatch(_, _, _)
LevelsMatch(f, t, i) ==
    IF i > Len(f) THEN i > Len(t)
    ELSE IF f[i] = "#" THEN TRUE
    ELSE IF i > Len(t) THEN FALSE
    ELSE (f[i] = "+" \/ f[i] = t[i]) /\ LevelsMatch(f, t, i + 1)

\* a message on topic is delivered to a subscription made with filter
TopicMatches(filter, topic) == LevelsMatch(Levels(filter), Levels(topic), 1)

\* the keys of a dict, as a set
Keys(d) == {d.e[i].k : i \in 1..Len(d.e)}

\* --------------------------------------------------------------------------
\* The service
\* --------------------------------------------------------------------------
\* os.environ of the service process ("" is an unset variable)
ServiceEnviron ==
    [PATH |-> "/usr/bin", MQTT_TOPIC |-> "", MQTT_PAYLOAD |-> ""]

NoEnv == [PATH |-> "", MQTT_TOPIC |-> "", MQTT_PAYLOAD |-> ""]

\* the state after `service = MQTTService()` (line 297) with one of the
\* configuration files of ServiceFiles
Init ==
    /\ cfgFile \in ServiceFiles
    /\ defaults = DEFAULT_CONFIG
    /\ config = load_config(cfgFile, DEFAULT_CONFIG).config
    /\ mainpc = "constructed"
    /\ pidFile = TRUE
    /\ exitStatus = -1
    /\ uncaught = "none"
    /\ conn = "none"
    /\ subs = {}
    /\ missed = 0
    /\ pingDue = FALSE
    /\ environ = ServiceEnviron
    /\ childEnv = NoEnv
    /\ pc = "loop"
    /\ msg = NoMsg
    /\ nmsg = 0
    /\ decision = "none"
    /\ starts = 0
    /\ child = "none"
    /\ elapsed = 0
    /\ outcome = "none"
    /\ raised = "none"
    /\ prev = NoPrev

\* the way out of main() through its finally clause (lines 302-304) after
\* sys.exit(status): stop() disconnects, remove_pid_file removes the PID file
ExitThroughFinally(status) ==
    /\ mainpc' = "exited"
    /\ exitStatus' = status
    /\ pidFile' = FALSE
    /\ conn' = "closed"
    /\ subs' = {}
    /\ pingDue' = FALSE
    /\ UNCHANGED <<cfgFile, defaults, uncaught, missed>>

\* start(): connected is whether client.connect succeeds. If it does,
\* loop_forever runs; if not, the except clause logs and calls sys.exit(1)
start(connected) ==
    /\ mainpc = "constructed"
    /\ IF connected
       THEN /\ mainpc' = "running"
            /\ conn' = "connecting"
            /\ UNCHANGED <<cfgFile, defaults, pidFile, exitStatus, uncaught,
                           subs, missed, pingDue>>
       ELSE ExitThroughFinally(1)
    /\ pc' = IF connected THEN "loop" ELSE "exited"
    /\ UNCHANGED <<config, msg, nmsg, decision, starts, child, elapsed,
                   outcome, raised, prev, environ, childEnv>>

\* on_connect that subscribes to the first configured topic only
on_connect_first_topic ==
    /\ mainpc = "running"
    /\ pc = "loop"
    /\ conn = "connecting"
    /\ conn' = "connected"
    /\ subs' = {DictGet(config, "topics").e[1].k}
    /\ UNCHANGED <<cfgFile, defaults, mainpc, pidFile, exitStatus, uncaught,
                   missed, pingDue, config, pc, msg, nmsg, decision, starts,
                   child, elapsed, outcome, raised, prev, environ, childEnv>>

\* on_connect: the broker acknowledged the connection (the first one or a
\* reconnect); the service subscribes to every configured topic
on_connect ==
    /\ mainpc = "running"
    /\ pc = "loop"
    /\ conn = "connecting"
    /\ conn' = "connected"
    /\ subs' = Keys(DictGet(config, "topics"))
    /\ UNCHANGED <<cfgFile, defaults, mainpc, pidFile, exitStatus, uncaught,
                   missed, pingDue, config, pc, msg, nmsg, decision, starts,
                   child, elapsed, outcome, raised, prev, environ, childEnv>>

\* on_disconnect: the connection is lost, and with it the subscriptions of
\* the session; the service only logs
on_disconnect ==
    /\ mainpc = "running"
    /\ pc = "loop"
    /\ conn = "connected"
    /\ conn' = "disconnected"
    /\ subs' = {}
    /\ pingDue' = FALSE
    /\ UNCHANGED <<cfgFile, defaults, mainpc, pidFile, exitStatus, uncaught,
                   missed, config, pc, msg, nmsg, decision, starts, child,
                   elapsed, outcome, raised, prev, environ, childEnv>>

\* loop_forever connects again after a disconnect
Reconnect ==
    /\ mainpc = "running"
    /\ pc = "loop"
    /\ conn = "disconnected"
    /\ conn' = "connecting"
    /\ UNCHANGED <<cfgFile, defaults, mainpc, pidFile, exitStatus, uncaught,
                   subs, missed, pingDue, config, pc, msg, nmsg, decision,
                   starts, child, elapsed, outcome, raised, prev, environ,
                   childEnv>>

\* a message is published while the service is disconnected: the service
\* never sees it
MissedPublish ==
    /\ mainpc = "running"
    /\ conn = "disconnected"
    /\ missed < MaxMissed
    /\ missed' = missed + 1
    /\ UNCHANGED <<cfgFile, defaults, mainpc, pidFile, exitStatus, uncaught,
                   conn, subs, pingDue, config, pc, msg, nmsg, decision,
                   starts, child, elapsed, outcome, raised, prev, environ,
                   childEnv>>

\* the keepalive interval has passed without traffic: a PINGREQ is due
KeepAliveDue ==
    /\ mainpc = "running"
    /\ conn = "connected"
    /\ ~pingDue
    /\ pingDue' = TRUE
    /\ UNCHANGED <<cfgFile, defaults, mainpc, pidFile, exitStatus, uncaught,
                   conn, subs, missed, config, pc, msg, nmsg, decision,
                   starts, child, elapsed, outcome, raised, prev, environ,
                   childEnv>>

\* loop_forever sends the PINGREQ that is due. loop_forever (line 249) runs
\* the network loop and the callbacks in the calling thread, so this happens
\* only while no callback is running
KeepAlive ==
    /\ mainpc = "running"
    /\ conn = "connected"
    /\ pc = "loop"
    /\ pingDue
    /\ pingDue' = FALSE
    /\ UNCHANGED <<cfgFile, defaults, mainpc, pidFile, exitStatus, uncaught,
                   conn, subs, missed, config, pc, msg, nmsg, decision,
                   starts, child, elapsed, outcome, raised, prev, environ,
                   childEnv>>

\* what on_message and the steps of execute_script leave alone
Stay == UNCHANGED <<mainVars, connVars>>

\* the environment execute_script builds for the child: a copy of
\* os.environ with MQTT_TOPIC and MQTT_PAYLOAD set (lines 187-189)
ChildEnviron(topic, payload) ==
    [environ EXCEPT !.MQTT_TOPIC = topic, !.MQTT_PAYLOAD = payload]

\* execute_script without the `except Exception` clause: a failure to
\* create the child process escapes
execute_script_uncaught(topic, payload, exists, spawned) ==
    /\ UNCHANGED environ
    /\ IF ~exists
       THEN /\ outcome' = "not_found"
            /\ raised' = "none"
            /\ pc' = "loop"
            /\ starts' = 0
            /\ child' = "none"
            /\ childEnv' = NoEnv
       ELSE IF ~spawned
       THEN /\ outcome' = "none"
            /\ raised' = "OSError"
            /\ pc' = "exited"
            /\ starts' = 0
            /\ child' = "none"
            /\ childEnv' = NoEnv
       ELSE /\ outcome' = "none"
            /\ raised' = "none"
            /\ pc' = "waiting"
            /\ starts' = 1
            /\ child' = "running"
            /\ childEnv' = ChildEnviron(topic, payload)

\* execute_script that sets MQTT_TOPIC and MQTT_PAYLOAD in os.environ itself
\* and lets the child inherit it
execute_script_shared_environ(topic, payload, exists, spawned) ==
    IF ~exists
    THEN /\ outcome' = "not_found"
         /\ raised' = "none"
         /\ pc' = "loop"
         /\ starts' = 0
         /\ child' = "none"
         /\ childEnv' = NoEnv
         /\ UNCHANGED environ
    ELSE /\ environ' = ChildEnviron(topic, payload)
         /\ IF ~spawned
            THEN /\ outcome' = "error"
                 /\ raised' = "none"
                 /\ pc' = "loop"
                 /\ starts' = 0
                 /\ child' = "none"
                 /\ childEnv' = NoEnv
            ELSE /\ outcome' = "none"
                 /\ raised' = "none"
                 /\ pc' = "waiting"
                 /\ starts' = 1
                 /\ child' = "running"
                 /\ childEnv' = ChildEnviron(topic, payload)

\* execute_script up to the point where subprocess.run waits for the child:
\* exists is os.path.exists(script_path), spawned is whether the child
\* process could be created
execute_script(topic, payload, exists, spawned) ==
    /\ UNCHANGED environ
    /\ IF ~exists
       THEN /\ outcome' = "not_found"
            /\ raised' = "none"
            /\ pc' = "loop"
            /\ starts' = 0
            /\ child' = "none"
            /\ childEnv' = NoEnv
       ELSE IF ~spawned
       THEN /\ outcome' = "error"
            /\ raised' = "none"
            /\ pc' = "loop"
            /\ starts' = 0
            /\ child' = "none"
            /\ childEnv' = NoEnv
       ELSE /\ outcome' = "none"
            /\ raised' = "none"
            /\ pc' = "waiting"
            /\ starts' = 1
            /\ child' = "running"
            /\ childEnv' = ChildEnviron(topic, payload)

\* on_message ends without a handler process; exception is what escapes it
\* ("none": it returns). An exception that escapes on_message ends
\* loop_forever; start() logs it and calls sys.exit(1) (lines 251-253)
NoDispatch(exception) ==
    /\ raised' = exception
    /\ starts' = 0
    /\ child' = "none"
    /\ outcome' = "none"
    /\ childEnv' = NoEnv
    /\ UNCHANGED environ
    /\ IF exception = "none"
       THEN pc' = "loop" /\ Stay
       ELSE pc' = "exited" /\ ExitThroughFinally(1)

\* on_message for a message the broker delivers on topic with the given
\* (decoded) payload text
on_message(topic, payload) ==
    LET topics == DictGet(config, "topics")
        topic_config == DictGet(topics, topic)
        result == should_execute_script(topic_config, payload)
    IN  /\ mainpc = "running"
        /\ pc = "loop"
        /\ conn = "connected"
        /\ \E filter \in subs : TopicMatches(filter, topic)
        /\ nmsg < MaxMsgs
        /\ nmsg' = nmsg + 1
        /\ msg' = [topic |-> topic, payload |-> payload]
        /\ prev' = [topic |-> msg.topic, payload |-> msg.payload,
                    starts |-> starts, outcome |-> outcome]
        /\ elapsed' = 0
        /\ UNCHANGED config
        /\ IF ~HasKey(topics, topic)
           THEN /\ decision' = "none"
                /\ NoDispatch("none")
           ELSE /\ decision' = result
                /\ IF result = "True"
                   THEN IF HasKey(topic_config, "script")
                        THEN /\ Stay
                             /\ \E exists, spawned \in BOOLEAN :
                                   execute_script(topic, payload, exists,
                                                  spawned)
                        ELSE NoDispatch("KeyError")
                   ELSE IF result = "False"
                   THEN NoDispatch("none")
                   ELSE NoDispatch(result)

\* on_message for a message whose payload bytes are not UTF-8:
\* msg.payload.decode('utf-8') (line 119) raises UnicodeDecodeError
on_message_undecodable(topic) ==
    /\ mainpc = "running"
    /\ pc = "loop"
    /\ conn = "connected"
    /\ \E filter \in subs : TopicMatches(filter, topic)
    /\ nmsg < MaxMsgs
    /\ nmsg' = nmsg + 1
    /\ msg' = [topic |-> topic, payload |-> ""]
    /\ prev' = [topic |-> msg.topic, payload |-> msg.payload,
                starts |-> starts, outcome |-> outcome]
    /\ elapsed' = 0
    /\ decision' = "none"
    /\ NoDispatch("UnicodeDecodeError")
    /\ UNCHANGED config

\* a second passes while subprocess.run waits for the child
Tick ==
    /\ pc = "waiting"
    /\ child = "running"
    /\ elapsed < Timeout
    /\ elapsed' = elapsed + 1
    /\ Stay
    /\ UNCHANGED <<config, pc, msg, nmsg, decision, starts, child, outcome,
                   raised, prev, environ, childEnv>>

\* ChildExit with a retry: a handler that fails is started again
ChildExitRetry(rc) ==
    /\ pc = "waiting"
    /\ child = "running"
    /\ IF rc = 0
       THEN /\ child' = "exited"
            /\ outcome' = "success"
            /\ pc' = "loop"
            /\ starts' = starts
       ELSE /\ child' = "running"
            /\ outcome' = "failed"
            /\ pc' = "waiting"
            /\ starts' = starts + 1
    /\ elapsed' = 0
    /\ Stay
    /\ UNCHANGED <<config, msg, nmsg, decision, raised, prev, environ,
                   childEnv>>

\* the child exits with return code rc before the timeout: subprocess.run
\* returns, execute_script logs the result and returns
ChildExit(rc) ==
    /\ pc = "waiting"
    /\ child = "running"
    /\ child' = "exited"
    /\ outcome' = IF rc = 0 THEN "success" ELSE "failed"
    /\ pc' = "loop"
    /\ elapsed' = 0
    /\ Stay
    /\ UNCHANGED <<config, msg, nmsg, decision, starts, raised, prev,
                   environ, childEnv>>

\* subprocess.run without a timeout: the wait is never cut short
TimeoutExpiredNever ==
    /\ FALSE
    /\ UNCHANGED vars

\* the timeout of subprocess.run expires: it kills the child and raises
\* TimeoutExpired, which execute_script logs
TimeoutExpired ==
    /\ pc = "waiting"
    /\ child = "running"
    /\ elapsed = Timeout
    /\ child' = "killed"
    /\ outcome' = "timeout"
    /\ pc' = "loop"
    /\ elapsed' = 0
    /\ Stay
    /\ UNCHANGED <<config, msg, nmsg, decision, starts, raised, prev,
                   environ, childEnv>>

Next ==
    \/ \E connected \in BOOLEAN : start(connected)
    \/ on_connect
    \/ on_disconnect
    \/ Reconnect
    \/ MissedPublish
    \/ KeepAliveDue
    \/ KeepAlive
    \/ \E topic \in Topics, payload \in Payloads : on_message(topic, payload)
    \/ \E topic \in Topics : on_message_undecodable(topic)
    \/ Tick
    \/ \E rc \in {0, 1} : ChildExit(rc)
    \/ TimeoutExpired

Spec == Init /\ [][Next]_vars

\* time passes and the timeout of subprocess.run fires; nothing makes the
\* child exit
LiveSpec == Spec /\ WF_vars(Tick) /\ WF_vars(TimeoutExpired)

\* --------------------------------------------------------------------------
\* should_execute_script on its own: the rule of one topic is drawn from
\* EvalRules and the function is applied to the payloads of EvalPayloads
\* --------------------------------------------------------------------------
EvalTopic == "sensor/probe"

EvalScript == "/usr/local/bin/handle_probe.py"

Operators == {">", "<", ">=", "<=", "==", "!=", "contains"}

Thresholds == {Whole(30), Whole(0), Num(325), Str("30"), None}

\* literal terms
Literals == {Whole(1), Str("1"), Str("online"), Bool(TRUE), None}

\* operator terms: with a threshold, with "value" in its place, with neither
OperatorTerms ==
    {Op(o, th) : o \in Operators, th \in Thresholds}
    \cup {Dict(<<Item("operator", Str(o)), Item("value", Whole(30))>>) :
              o \in Operators}
    \cup {Dict(<<Item("operator", Str(o))>>) : o \in Operators}

\* terms on the second field of the two-term condition sets
StatusTerms == {Str("online"), Op("==", Str("online")), Op(">", Str("x"))}

TemperatureTerms == {Op(">", Whole(30)), Op(">", Str("30")), Whole(1)}

\* the condition sets, as the item sequences of the conditions dict
EvalConditions ==
    {<<>>}
    \cup {<<Item("temperature", term)>> : term \in Literals \cup OperatorTerms}
    \cup {<<Item("temperature", a), Item("status", b)>> :
              a \in TemperatureTerms, b \in StatusTerms}
    \cup {<<Item("status", b), Item("temperature", a)>> :
              a \in TemperatureTerms, b \in StatusTerms}

\* the topic rules: a condition set, conditions null, no conditions key
EvalRules ==
    {Rule(EvalScript, Dict(items)) : items \in EvalConditions}
    \cup {Rule(EvalScript, None),
          Dict(<<Item("script", Str(EvalScript))>>)}

EvalConfigs == {WithTopics(<<Item(EvalTopic, rule)>>) : rule \in EvalRules}

EvalPayloads ==
    { "{\"temperature\": 32.5}", "{\"temperature\": 30}",
      "{\"temperature\": 20}", "{\"temperature\": 1}",
      "{\"temperature\": 0}", "{\"temperature\": -5}",
      "{\"temperature\": true}", "{\"temperature\": false}",
      "{\"temperature\": null}", "{\"temperature\": \"1\"}",
      "{\"temperature\": \"30\"}", "{\"temperature\": \"online\"}",
      "{\"temperature\": [1]}", "{\"temperature\": {\"a\": 1}}",
      "{\"status\": \"online\"}",
      "{\"temperature\": 32.5, \"status\": \"online\"}",
      "{\"temperature\": 1, \"status\": \"offline\"}",
      "{\"temperature\": 1, \"status\": 5}",
      "{}", "5", "32.5", "true", "null", "\"abc\"", "\"temperature\"",
      "[1, 2]", "[\"temperature\"]", "[]",
      "not-json", "temperature is high", "{\"temperature\": 32.5", "" }

EvalInit ==
    /\ config \in EvalConfigs
    /\ cfgFile = EmptyFile
    /\ defaults = DEFAULT_CONFIG
    /\ mainpc = "running"
    /\ pidFile = TRUE
    /\ exitStatus = -1
    /\ uncaught = "none"
    /\ conn = "connected"
    /\ subs = Keys(DictGet(config, "topics"))
    /\ missed = 0
    /\ pingDue = FALSE
    /\ environ = ServiceEnviron
    /\ childEnv = NoEnv
    /\ pc = "loop"
    /\ msg = NoMsg
    /\ nmsg = 0
    /\ decision = "none"
    /\ starts = 0
    /\ child = "none"
    /\ elapsed = 0
    /\ outcome = "none"
    /\ raised = "none"
    /\ prev = NoPrev

\* the call self.should_execute_script(topic_config, payload) of on_message
Evaluate(payload) ==
    LET topic_config == DictGet(DictGet(config, "topics"), EvalTopic)
    IN  /\ pc = "loop"
        /\ msg' = [topic |-> EvalTopic, payload |-> payload]
        /\ decision' = should_execute_script(topic_config, payload)
        /\ UNCHANGED <<mainVars, connVars, config, pc, nmsg, starts, child,
                       elapsed, outcome, raised, prev, environ, childEnv>>

EvalNext == \E payload \in EvalPayloads : Evaluate(payload)

EvalSpec == EvalInit /\ [][EvalNext]_vars

\* --------------------------------------------------------------------------
\* Properties of should_execute_script (under EvalSpec)
\* --------------------------------------------------------------------------
\* should_execute_script was applied to msg
Evaluated == decision # "none"

\* the rule, the condition set and the parsed payload of the last evaluation
EvalRule == DictGet(DictGet(config, "topics"), msg.topic)

EvalConds == DictGetOr(EvalRule, "conditions", EmptyDict)

PayloadJson == json_loads(msg.payload)

\* the condition set is a non-empty mapping
NonEmptyConds == EvalConds.t = "dict" /\ Len(EvalConds.e) > 0

\* the condition set has exactly one term; its field and the term
SingleTerm == EvalConds.t = "dict" /\ Len(EvalConds.e) = 1

TermField == EvalConds.e[1].k

Term == EvalConds.e[1].val

IsOperatorTerm(term) == term.t = "dict" /\ HasKey(term, "operator")

IsRelationalTerm(term) ==
    /\ IsOperatorTerm(term)
    /\ DictGet(term, "operator").t = "str"
    /\ DictGet(term, "operator").s \in RelationalOps

\* the payload is a JSON object that has the field of the single term
PayloadHasField ==
    /\ PayloadJson.ok
    /\ PayloadJson.val.t = "dict"
    /\ HasKey(PayloadJson.val, TermField)

FieldValue == DictGet(PayloadJson.val, TermField)

\* a op b on numbers
Holds(op, a, b) ==
    CASE op = ">" -> a > b
      [] op = "<" -> a < b
      [] op = ">=" -> a >= b
      [] OTHER -> a <= b

\* C1: a payload that is not JSON never matches a non-empty condition set,
\* and no exception is raised: the result is False
C1_NonJsonPayloadIsNonMatch ==
    (Evaluated /\ NonEmptyConds /\ ~PayloadJson.ok) => decision = "False"

\* C2: one relational term with a numeric threshold on a field the payload
\* object has: True iff the value is a number and (value op threshold)
\* holds, False (no exception) for every non-numeric value
C2_RelationalIffNumericAndHolds ==
    (/\ Evaluated
     /\ SingleTerm
     /\ IsRelationalTerm(Term)
     /\ HasKey(Term, "threshold")
     /\ DictGet(Term, "threshold").t = "num"
     /\ PayloadHasField)
    => decision = IF /\ FieldValue.t = "num"
                     /\ Holds(DictGet(Term, "operator").s, FieldValue.n,
                              DictGet(Term, "threshold").n)
                  THEN "True" ELSE "False"

\* C3: a relational term whose threshold is a string, or absent, on a
\* numeric field value fails: the result is False and nothing is raised
C3_NonNumericThresholdFails ==
    (/\ Evaluated
     /\ SingleTerm
     /\ IsRelationalTerm(Term)
     /\ \/ HasKey(Term, "threshold") /\ DictGet(Term, "threshold").t = "str"
        \/ ~HasKey(Term, "threshold") /\ ~HasKey(Term, "value")
     /\ PayloadHasField
     /\ FieldValue.t = "num")
    => decision = "False"

\* C4: a payload that parses as JSON (of any JSON type) and has no field F,
\* against a condition set with a term on F, gives False
C4_MissingFieldIsNonMatch ==
    (/\ Evaluated
     /\ NonEmptyConds
     /\ PayloadJson.ok
     /\ \E i \in 1..Len(EvalConds.e) :
           ~(PayloadJson.val.t = "dict"
             /\ HasKey(PayloadJson.val, EvalConds.e[i].k)))
    => decision = "False"

\* C5: with an empty or absent condition set the result is True for every
\* payload, JSON or not
C5_EmptyConditionsAlwaysMatch ==
    (Evaluated /\ (~HasKey(EvalRule, "conditions") \/ EvalConds = EmptyDict))
    => decision = "True"

\* C5 witness: a rule with an empty or absent condition set was evaluated on
\* a payload that is not JSON, and the result was True
C5_Witness ==
    /\ Evaluated
    /\ EvalConds = EmptyDict
    /\ ~PayloadJson.ok
    /\ decision = "True"

\* C6: a literal term matches by exact, type-sensitive equality: True for
\* the same value of the same type, False for a value of another type
C6_LiteralIsTypeSensitive ==
    (/\ Evaluated
     /\ SingleTerm
     /\ ~IsOperatorTerm(Term)
     /\ PayloadHasField)
    => /\ (FieldValue = Term) => decision = "True"
       /\ (FieldValue.t # Term.t) => decision = "False"

\* the condition set with its terms in another order
Reordered(rule, items, f) ==
    Dict(DictSet(rule.e, "conditions",
                 Dict([i \in 1..Len(items) |-> items[f[i]]])))

\* C7: the outcome (True, False or an exception) is the same for every
\* order of the terms of the condition set
C7_TermOrderIrrelevant ==
    (Evaluated /\ NonEmptyConds)
    => \A f \in Permutations(1..Len(EvalConds.e)) :
          should_execute_script(Reordered(EvalRule, EvalConds.e, f),
                                msg.payload) = decision

\* --------------------------------------------------------------------------
\* Properties of the dispatch (under Spec and LiveSpec)
\* --------------------------------------------------------------------------
\* the topic of msg has a rule in the configuration
Configured == HasKey(DictGet(config, "topics"), msg.topic)

\* the outcomes execute_script logs for a dispatch that failed
Failures == {"not_found", "error", "failed", "timeout"}

\* C8: at most one handler process is started per inbound message, none when
\* the topic is not configured or the conditions do not hold; a handler that
\* failed or timed out is not started again; a handler is started only by
\* the arrival of a message, each message on its own evaluation
C8_AtMostOneStartPerMessage ==
    /\ [](/\ starts <= 1
          /\ (nmsg > 0 /\ (~Configured \/ decision = "False")) => starts = 0
          /\ outcome \in {"failed", "timeout"} =>
                (starts = 1 /\ child # "running" /\ pc = "loop")
          /\ outcome \in {"success", "failed", "timeout"} => decision = "True"
          /\ pc = "waiting" => (decision = "True" /\ starts = 1))
    /\ [][starts' > starts => (nmsg' = nmsg + 1 /\ decision' = "True")]_vars

\* C8 witness: the same message arrived twice; the handler of the first one
\* failed and was started once, the handler of the second one was started too
C8_Witness ==
    /\ nmsg = 2
    /\ prev.topic = msg.topic
    /\ prev.payload = msg.payload
    /\ prev.outcome = "failed"
    /\ prev.starts = 1
    /\ starts = 1
    /\ child = "running"

\* C9: execute_script never waits past the 30 second bound; a wait that ends
\* without the child having exited ends at the bound, with the child killed
\* and a timeout logged; and every wait ends (execute_script returns)
C9_TimeoutBoundsTheWait ==
    /\ [](pc = "waiting" => elapsed <= Timeout)
    /\ [][(pc = "waiting" /\ pc' # "waiting" /\ child' # "exited") =>
             (/\ elapsed = Timeout
              /\ child' = "killed"
              /\ outcome' = "timeout"
              /\ pc' = "loop")]_vars
    /\ (pc = "waiting") ~> (pc = "loop")

\* C9 witness: a handler ran into the timeout, was killed, and the service
\* is back in its message loop
C9_Witness ==
    /\ outcome = "timeout"
    /\ child = "killed"
    /\ starts = 1
    /\ pc = "loop"

\* C10: no failure of a dispatch escapes execute_script: once the conditions
\* hold and the rule has a script, on_message raises nothing; after a logged
\* failure the service is back in its message loop, the handler is not
\* running and was started at most once
C10_DispatchFailuresAbsorbed ==
    /\ (nmsg > 0 /\ Configured /\ decision = "True"
           /\ HasKey(DictGet(DictGet(config, "topics"), msg.topic), "script"))
       => (raised = "none" /\ pc # "exited")
    /\ outcome \in Failures =>
          (raised = "none" /\ pc = "loop" /\ child # "running" /\ starts <= 1)
    /\ (outcome \in {"not_found", "error"}) => starts = 0

\* C10 witness: the handler of one message could not be started, and the
\* handler of the next message ran and succeeded
C10_Witness ==
    /\ prev.outcome = "error"
    /\ decision = "True"
    /\ outcome = "success"
    /\ pc = "loop"

\* --------------------------------------------------------------------------
\* Properties of the message loop (under Spec)
\* --------------------------------------------------------------------------
\* the topic filters of the configuration
ConfiguredTopics == Keys(DictGet(config, "topics"))

\* C11: no inbound message is fatal: no exception escapes on_message, for
\* any topic, payload bytes and condition set, and the process exits only
\* when the broker connection fails (before any message)
C11_NoMessageIsFatal ==
    /\ raised = "none"
    /\ mainpc = "exited" => nmsg = 0

\* C12: the handler process of a dispatch sees exactly the topic and the
\* payload of its own message in MQTT_TOPIC and MQTT_PAYLOAD, on top of a
\* copy of the service's environment; the service's own environment never
\* changes, so no dispatch sees the values of another
C12_ChildEnvironIsPerDispatch ==
    /\ [](child = "running" =>
             /\ childEnv.MQTT_TOPIC = msg.topic
             /\ childEnv.MQTT_PAYLOAD = msg.payload
             /\ childEnv.PATH = environ.PATH)
    /\ [](environ.MQTT_TOPIC = "" /\ environ.MQTT_PAYLOAD = "")
    /\ [][environ' = environ]_vars

\* C12 witness: two messages on different topics with different payloads
\* were dispatched one after the other; the second handler is running with
\* the values of the second message
C12_Witness ==
    /\ nmsg = 2
    /\ prev.starts = 1
    /\ prev.topic # msg.topic
    /\ prev.payload # msg.payload
    /\ child = "running"
    /\ childEnv.MQTT_TOPIC = msg.topic
    /\ childEnv.MQTT_PAYLOAD = msg.payload
    /\ environ = ServiceEnviron

\* C13: whenever the service is connected, after the first connect and after
\* every reconnect, it is subscribed to every configured topic; connecting
\* delivers no message to on_message, and on_message runs only for messages
\* delivered while connected, so a missed message is never replayed
C13_SubscribesAllOnEveryConnect ==
    /\ [](conn = "connected" => subs = ConfiguredTopics)
    /\ [][(conn # "connected" /\ conn' = "connected") =>
             (nmsg' = nmsg /\ msg' = msg /\ decision' = decision
                 /\ starts' = starts /\ pc' = pc)]_vars
    /\ [][nmsg' # nmsg => (conn = "connected" /\ nmsg' = nmsg + 1)]_vars
    /\ [][missed' # missed => UNCHANGED <<nmsg, msg, decision, starts>>]_vars

\* C13 witness: the service lost its session, a message was published
\* meanwhile, and the service is connected again with all its three topics
\* subscribed and no message handled
C13_Witness ==
    /\ conn = "connected"
    /\ missed = 1
    /\ nmsg = 0
    /\ subs = ConfiguredTopics
    /\ Cardinality(subs) > 2

\* C14: every message delivered because of a subscription is routed to the
\* rule whose topic pattern it matches (wildcards + and # included):
\* should_execute_script is called, and when it gives True, execute_script
\* is called
C14_DeliveredMessagesAreRouted ==
    (/\ nmsg > 0
     /\ raised # "UnicodeDecodeError"
     /\ \E filter \in ConfiguredTopics : TopicMatches(filter, msg.topic))
    => /\ decision # "none"
       /\ decision = "True" => (pc = "waiting" \/ outcome # "none")

\* the payload of end-to-end scenario 1
ScenarioPayload == "{\"temperature\": 32.5}"

\* C16: with the rule of scenario 1 in the configuration file (UserFile), a
\* message on sensor/temperature with payload {"temperature": 32.5} matches
\* and the handler gets that payload in MQTT_PAYLOAD
C16_ScenarioOneMatches ==
    (/\ cfgFile = UserFile
     /\ nmsg > 0
     /\ msg = [topic |-> "sensor/temperature", payload |-> ScenarioPayload])
    => /\ decision = "True"
       /\ child = "running" => childEnv.MQTT_PAYLOAD = ScenarioPayload

\* C17: keepalive handling runs apart from the dispatch: while
\* execute_script waits for a handler, a PINGREQ that is due can be sent
C17_KeepAliveDuringDispatch ==
    (mainpc = "running" /\ conn = "connected" /\ pc = "waiting" /\ pingDue)
    => ENABLED KeepAlive

\* --------------------------------------------------------------------------
\* merge_configs on its own: MergeSpec applies it to a default mapping and
\* to the mapping parsed from a file
\* --------------------------------------------------------------------------
\* default mappings: the module's defaults, parts of them, small nested ones
MergeDefaults ==
    { DEFAULT_CONFIG,
      DictGet(DEFAULT_CONFIG, "topics"),
      DictGet(DEFAULT_CONFIG, "mqtt"),
      EmptyDict,
      Dict(<<Item("a", Whole(1)),
             Item("b", Dict(<<Item("c", Whole(1)),
                              Item("d", Dict(<<Item("e", Whole(1))>>))>>))>>),
      Dict(<<Item("b", Whole(1)), Item("a", Dict(<<Item("x", Whole(1))>>))>>) }

\* user mappings, as the text json.load reads them
MergeTexts ==
    { "{}",
      "{\"a\": 2}",
      "{\"a\": {\"y\": 2}}",
      "{\"a\": {\"x\": {\"z\": 3}}}",
      "{\"b\": 5}",
      "{\"b\": {\"c\": 2}}",
      "{\"b\": {\"d\": {\"f\": 3}}}",
      "{\"b\": {\"d\": 4}, \"a\": null}",
      "{\"z\": {\"k\": 1}, \"b\": {\"d\": {\"e\": 2}, \"g\": 1}}",
      "{\"port\": 1884}",
      "{\"broker\": \"example.org\", \"username\": \"u\"}",
      "{\"mqtt\": {\"port\": 1884}}",
      "{\"mqtt\": {\"broker\": \"example.org\", \"tls\": {\"ca\": \"x\"}}}",
      "{\"logging\": \"off\"}",
      "{\"logging\": {\"level\": \"DEBUG\"}, \"mqtt\": {\"keepalive\": 30}}",
      "{\"topics\": null}",
      "{\"topics\": {\"device/status\": {\"script\": \"/x.py\"}}}",
      "{\"sensor/temperature\": {\"conditions\": null}}",
      "{\"sensor/temperature\": {\"conditions\": {\"threshold\": 30}}, \"sensor/raw\": {\"script\": \"/x.py\"}}",
      UserFile.text }

MergeFiles == {File(text) : text \in MergeTexts}

MergeInit ==
    /\ cfgFile \in MergeFiles
    /\ defaults \in MergeDefaults
    /\ config = None
    /\ mainpc = "loading"
    /\ pidFile = TRUE
    /\ exitStatus = -1
    /\ uncaught = "none"
    /\ conn = "none"
    /\ subs = {}
    /\ missed = 0
    /\ pingDue = FALSE
    /\ environ = ServiceEnviron
    /\ childEnv = NoEnv
    /\ pc = "loop"
    /\ msg = NoMsg
    /\ nmsg = 0
    /\ decision = "none"
    /\ starts = 0
    /\ child = "none"
    /\ elapsed = 0
    /\ outcome = "none"
    /\ raised = "none"
    /\ prev = NoPrev

\* the call self.merge_configs(DEFAULT_CONFIG, config) of load_config, on the
\* mapping read from the file
Merge ==
    LET user == json_loads(cfgFile.text).val
        merged == merge_configs(defaults, user)
    IN  /\ mainpc = "loading"
        /\ config' = merged.result
        /\ defaults' = merged.default
        /\ mainpc' = "loaded"
        /\ UNCHANGED <<cfgFile, pidFile, exitStatus, uncaught, connVars,
                       environ, childEnv, pc, msg, nmsg, decision, starts,
                       child, elapsed, outcome, raised, prev>>

MergeNext == Merge

MergeSpec == MergeInit /\ [][MergeNext]_vars

\* the mapping merge_configs was given as user
MergeUser == json_loads(cfgFile.text).val

RECURSIVE IsRecursiveMerge(_, _, _)

\* result is the recursive merge of user into default: it has the keys of
\* both; a key of default alone keeps default's value; a key whose value is
\* a mapping on both sides is merged the same way; any other key of user has
\* user's value
IsRecursiveMerge(default, user, result) ==
    /\ result.t = "dict"
    /\ Keys(result) = Keys(default) \cup Keys(user)
    /\ \A key \in Keys(result) :
         IF ~HasKey(user, key)
         THEN DictGet(result, key) = DictGet(default, key)
         ELSE IF /\ HasKey(default, key)
                 /\ DictGet(default, key).t = "dict"
                 /\ DictGet(user, key).t = "dict"
         THEN IsRecursiveMerge(DictGet(default, key), DictGet(user, key),
                               DictGet(result, key))
         ELSE DictGet(result, key) = DictGet(user, key)

\* C15: merge_configs(default, user) returns the recursive merge of user
\* into default (mappings on both sides merged key by key, anything else
\* replaced by user's value, default's other keys kept) and leaves default
\* as it was
C15_MergeIsRecursiveAndPure ==
    [][config' # config =>
          /\ IsRecursiveMerge(defaults, MergeUser, config')
          /\ defaults' = defaults]_vars

\* C15 witness: a merge two levels deep has happened: under a key that is a
\* mapping on both sides, a nested key is a mapping on both sides again and
\* the merged mapping keeps a key of default next to a key of user
C15_Witness ==
    /\ mainpc = "loaded"
    /\ \E key \in Keys(defaults) \cap Keys(MergeUser) :
         LET d == DictGet(defaults, key)
             u == DictGet(MergeUser, key)
             r == DictGet(config, key)
         IN  /\ d.t = "dict" /\ u.t = "dict"
             /\ \E inner \in Keys(d) \cap Keys(u) :
                  /\ DictGet(d, inner).t = "dict"
                  /\ DictGet(u, inner).t = "dict"
                  /\ Keys(DictGet(r, inner)) \ Keys(DictGet(u, inner)) # {}
                  /\ Keys(DictGet(r, inner)) \ Keys(DictGet(d, inner)) # {}

\* --------------------------------------------------------------------------
\* main() from its start: MainSpec begins once the signal handlers are
\* registered (line 291) and adds SIGTERM/SIGINT to the service's steps
\* --------------------------------------------------------------------------
\* a file cut off in the middle, and one that holds a JSON array
BrokenFile == File("{\"topics\": ")

ArrayFile == File("[1]")

\* the configuration files main() may find
MainFiles == ServiceFiles \cup {MissingFile, UnreadableFile, BrokenFile, ArrayFile}

\* load_config can neither find, read nor parse the file into a mapping
Unusable(file) ==
    \/ ~file.exists
    \/ ~file.readable
    \/ ~json_loads(file.text).ok
    \/ json_loads(file.text).val.t # "dict"

MainInit ==
    /\ cfgFile \in MainFiles
    /\ defaults = DEFAULT_CONFIG
    /\ config = None
    /\ mainpc = "init"
    /\ pidFile = FALSE
    /\ exitStatus = -1
    /\ uncaught = "none"
    /\ conn = "none"
    /\ subs = {}
    /\ missed = 0
    /\ pingDue = FALSE
    /\ environ = ServiceEnviron
    /\ childEnv = NoEnv
    /\ pc = "loop"
    /\ msg = NoMsg
    /\ nmsg = 0
    /\ decision = "none"
    /\ starts = 0
    /\ child = "none"
    /\ elapsed = 0
    /\ outcome = "none"
    /\ raised = "none"
    /\ prev = NoPrev

\* the loop, the message and the handler stay as they are
Idle ==
    UNCHANGED <<connVars, environ, childEnv, pc, msg, nmsg, decision, starts,
                child, elapsed, outcome, raised, prev>>

\* main() dies of an exception outside its try statement: traceback, exit
\* status 1, no finally clause runs
Crash(exception) ==
    /\ mainpc' = "exited"
    /\ exitStatus' = 1
    /\ uncaught' = exception
    /\ UNCHANGED <<cfgFile, pidFile>>

\* write_pid_file() at line 294
write_pid_file ==
    /\ mainpc = "init"
    /\ mainpc' = "pid_written"
    /\ pidFile' = TRUE
    /\ UNCHANGED <<cfgFile, defaults, config, exitStatus, uncaught>>
    /\ Idle

\* service = MQTTService() at line 297, outside the try statement:
\* load_config, then setup_logging, which opens the log file (log_ok: it can)
Construct(log_ok) ==
    LET loaded == load_config(cfgFile, defaults)
    IN  /\ mainpc = "pid_written"
        /\ defaults' = loaded.default
        /\ IF loaded.raised # "none"
           THEN /\ Crash(loaded.raised)
                /\ config' = config
           ELSE IF ~log_ok
           THEN /\ Crash("OSError")
                /\ config' = config
           ELSE /\ mainpc' = "constructed"
                /\ config' = loaded.config
                /\ UNCHANGED <<cfgFile, pidFile, exitStatus, uncaught>>
        /\ Idle

\* SIGTERM or SIGINT: signal_handler runs in the main thread, on top of
\* whatever main() is doing. Before line 297 has assigned it, the closure
\* variable `service` is unbound and `if service:` raises NameError. After,
\* stop() disconnects the client if there is one, remove_pid_file runs and
\* sys.exit(0) raises SystemExit at the interrupted point: inside
\* subprocess.run that is the bare except clause, which kills the child
Signal ==
    /\ mainpc # "exited"
    /\ IF mainpc \in {"init", "pid_written"}
       THEN /\ Crash("NameError")
            /\ UNCHANGED <<defaults, config>>
            /\ Idle
       ELSE /\ mainpc' = "exited"
            /\ exitStatus' = 0
            /\ pidFile' = FALSE
            /\ conn' = IF mainpc = "running" THEN "closed" ELSE conn
            /\ subs' = {}
            /\ pingDue' = FALSE
            /\ pc' = "exited"
            /\ child' = IF child = "running" THEN "killed" ELSE child
            /\ elapsed' = 0
            /\ UNCHANGED <<cfgFile, defaults, config, uncaught, missed,
                           environ, childEnv, msg, nmsg, decision, starts,
                           outcome, raised, prev>>

MainNext ==
    \/ write_pid_file
    \/ \E log_ok \in BOOLEAN : Construct(log_ok)
    \/ Signal
    \/ Next

MainSpec == MainInit /\ [][MainNext]_vars

\* C18: a shutdown signal accepts no further message and tears the session
\* down, and a handler running at that moment is not killed by it: it is
\* left to finish or to reach its timeout
C18_SignalSparesRunningHandler ==
    /\ [][(mainpc = "running" /\ mainpc' = "exited" /\ exitStatus' = 0) =>
             /\ nmsg' = nmsg
             /\ conn' = "closed"
             /\ child = "running" => child' = "running"]_vars
    /\ [][mainpc = "exited" => nmsg' = nmsg]_vars

\* C19: constructing MQTTService with a configuration file that is missing,
\* unreadable or unparseable completes, and self.config is DEFAULT_CONFIG
C19_UnusableFileGivesDefaults ==
    [][(Unusable(cfgFile) /\ Construct(TRUE)) =>
          /\ mainpc' = "constructed"
          /\ uncaught' = "none"
          /\ config' = DEFAULT_CONFIG]_vars

\* C20: once write_pid_file has run, whichever way main() ends (connect
\* failure, signal, exception while constructing), the PID file is gone
\* when the process has exited
C20_PidFileRemovedOnExit ==
    mainpc = "exited" => pidFile = FALSE

\* --------------------------------------------------------------------------
\* Operator terms with an operator the evaluator does not know (EvalSpec)
\* --------------------------------------------------------------------------
\* the operators lines 154-171 compare against
KnownOperators == RelationalOps \cup {"==", "!="}

\* the condition set of the last evaluation has an operator term whose
\* operator is none of them
HasUnknownOperator ==
    /\ NonEmptyConds
    /\ \E i \in 1..Len(EvalConds.e) :
         LET term == EvalConds.e[i].val
         IN  /\ IsOperatorTerm(term)
             /\ ~ (/\ DictGet(term, "operator").t = "str"
                   /\ DictGet(term, "operator").s \in KnownOperators)

\* C21: a condition set with an operator term whose operator is not one of
\* >, <, >=, <=, ==, != is never satisfied: for every payload
\* should_execute_script returns False and raises nothing
C21_UnknownOperatorNeverSatisfied ==
    (Evaluated /\ HasUnknownOperator) => decision = "False"

====
